---- MODULE Spec2Model ----
(***************************************************************************)
(* pdfsm.h: a pushdown finite state machine.  A StateMachine record holds  *)
(* a fixed array `stack` of N state indices and a cursor `top`; a          *)
(* StateMachineHandler owns the transition table tt and dispatches the     *)
(* behaviours' hooks while it drives one bound record through              *)
(* Jump / Push / Pop / Update.                                             *)
(*                                                                         *)
(* The handler's methods are operators over a configuration: the bound     *)
(* record, the blackboard the hooks count in, the hooks dispatched so far  *)
(* in this call, the call's outcome, and the plan of what the hooks still  *)
(* to run will do.  A method returns the set of configurations the call    *)
(* can end in; the actions apply them to the bound record.  A hook either  *)
(* only counts, as those of tests/states.h do, or also calls back into the *)
(* handler, as A::OnSignal does from BeforeUpdate; what each hook does is  *)
(* an input of the call, its plan.  Under Spec no hook calls back.         *)
(***************************************************************************)
EXTENDS Integers, Sequences, FiniteSets

\* enum class S { A, B, C, N }: the number of states, and the stack capacity.
N == 3
\* m = nullptr: no record is bound.
NULL == 0
\* A slot of `int stack[N]` that was never written.
Indeterminate == -1

\* How many StateMachine records the host owns.
NumRecords == 2
\* How many calls the host makes on the handler in one run.
MaxCalls == 5

States == 0 .. (N - 1)
Records == 1 .. NumRecords

\* The transition tables the handler is constructed from: the one of
\* tests/states.h (A -> {B, C}, B -> {C}), the robot's of the README
\* (cyclic), one with no entry at all, and one with a self-transition and
\* two entries for the same `from`.
TestTable == << [from |-> 0, targets |-> <<1, 2>>], [from |-> 1, targets |-> <<2>>] >>
RobotTable ==
    << [from |-> 0, targets |-> <<1, 2>>],
       [from |-> 1, targets |-> <<0, 2>>],
       [from |-> 2, targets |-> <<0>>] >>
EmptyTable == << >>
LoopTable ==
    << [from |-> 0, targets |-> <<0>>],
       [from |-> 0, targets |-> <<1>>],
       [from |-> 1, targets |-> <<1, 0>>] >>
Tables == {TestTable, RobotTable, EmptyTable, LoopTable}

\* The behaviour table of tests/states.h: A, B and C, in this order.
TestBehaviors == << 0, 1, 2 >>

VARIABLES
    behaviors,   \* the StateBehaviorTable: what each behaviour's StateValue() is
    bt,          \* StateMachineHandler::bt, bt[state] = its behaviour's place
                 \* in the table
    ctor,        \* where the constructor is: [pc, i]
    transitions, \* the TransitionTable the handler was constructed from
    tt,          \* StateMachineHandler::tt, tt[from][to]
    m,           \* StateMachineHandler::m, the bound record or NULL
    fsm,         \* the host's StateMachine records: [stack, top]
    bb,          \* the Blackboard's counters, bb[hook][state]
    seq,         \* the number of calls made so far
    last,        \* the latest call: [op, to, rec, plan, result, ret]
    calls,       \* the hooks the latest call dispatched, in order, each
                 \* << hook, state, the cursor when the hook began >>
    pre,         \* the record the latest call ran on, as it was before it
    pushes,      \* per record, the Push calls that returned normally
    pops,        \* per record, the Pop calls that returned normally
    fault        \* "none", "abort" (assert failed) or "ub"

vars == << behaviors, bt, ctor, transitions, tt, m, fsm, bb, seq, last,
           calls, pre, pushes, pops, fault >>

\* The hooks that count in the Blackboard (BeforeUpdate has no counter).
Hooks == {"OnEnter", "OnTerminate", "OnPause", "OnResume", "Update"}

\* A hook that only counts.
NoCall == << "none" >>
\* What a hook can do besides counting: call Jump, Push or Pop on its handler.
HookActions ==
    {NoCall, << "Pop" >>}
        \cup {<< "Jump", x >> : x \in States}
        \cup {<< "Push", x >> : x \in States}
\* No hook of the call calls back.
NoPlan == << >>

\* setup marking the reverse of each declared pair as well.
setupSymmetric(table) ==
    [f \in States |->
        [t \in States |->
            \E i \in 1 .. Len(table) :
                \/ /\ table[i].from = f
                   /\ \E j \in 1 .. Len(table[i].targets) : table[i].targets[j] = t
                \/ /\ table[i].from = t
                   /\ \E j \in 1 .. Len(table[i].targets) : table[i].targets[j] = f]]

\* setup(), the transitions loop: tt[C(t.from)][C(to)] = 1 for each target.
setup(table) ==
    [f \in States |->
        [t \in States |->
            \E i \in 1 .. Len(table) :
                /\ table[i].from = f
                /\ \E j \in 1 .. Len(table[i].targets) : table[i].targets[j] = t]]

\* A failed assert(): the debug build aborts; the NDEBUG build compiles the
\* assert out and goes on to the access it guarded, which is undefined.
AssertFailed == {"abort", "ub"}

\* check with the table read the other way round, tt[to][from].
checkReversed(from, to) == tt[to][from]

\* check(from, to): TRUE when it returns, FALSE when it throws.
check(from, to) == tt[from][to]

\* throw std::runtime_error("pdfsm: invalid jump ...")
Throw(c) == [c EXCEPT !.result = "InvalidTransition"]

\* An access outside `stack`, or through the null m: undefined behaviour.
Undefined(c) == [c EXCEPT !.result = "ub"]

\* Statement sequencing: the next statement runs from the configurations
\* that are still running; an exception or a fault ends the call where it
\* happened.
Running(S) == {c \in S : c.result = "ok"}
Ended(S) == {c \in S : c.result # "ok"}

\* m->stack[++m->top] = x.  With top == N - 1 the store lands one past the
\* array, where the member `top` itself lies: the cursor ends as N or as x.
Store(c, x) ==
    LET t == c.top + 1
    IN  IF t \in States
        THEN {[c EXCEPT !.top = t, !.stack[t] = x]}
        ELSE {Undefined([c EXCEPT !.top = u]) : u \in {t, x}}

RECURSIVE Jump(_, _), Push(_, _), Pop(_)

\* The hook `hook` of behaviour bt[s] runs: it counts in the blackboard and
\* then does what the plan says it does.  An exception thrown by the call
\* it makes leaves the hook, and the handler method that dispatched it.
Fire(c, hook, s) ==
    LET c1 == [c EXCEPT !.calls = Append(@, << hook, s, c.top >>),
                        !.bb = IF hook \in Hooks
                               THEN [@ EXCEPT ![hook][s] = @ + 1]
                               ELSE @]
        a == IF c1.plan = << >> THEN NoCall ELSE Head(c1.plan)
        c2 == IF c1.plan = << >> THEN c1 ELSE [c1 EXCEPT !.plan = Tail(@)]
    IN  CASE a[1] = "Jump" -> Jump(c2, a[2])
          [] a[1] = "Push" -> Push(c2, a[2])
          [] a[1] = "Pop" -> Pop(c2)
          [] OTHER -> {c2}

\* OnEnter dispatched before the store that puts x on top.
EnterBeforeStore(S, x) ==
    LET S1 == Ended(S) \cup UNION {Fire(d, "OnEnter", x) : d \in Running(S)}
    IN  Ended(S1) \cup UNION {Store(d, x) : d \in Running(S1)}

\* The last two statements of Jump and of Push, from the configurations S:
\* m->stack[++m->top] = x; bt[x]->OnEnter(ctx).
Enter(S, x) ==
    LET S1 == Ended(S) \cup UNION {Store(d, x) : d \in Running(S)}
    IN  Ended(S1) \cup UNION {Fire(d, "OnEnter", x) : d \in Running(S1)}

\* Jump dispatching OnTerminate before it has checked the transition.
JumpTerminateFirst(c, x) ==
    IF c.top = -1
    THEN Enter({c}, x)
    ELSE LET S == Fire([c EXCEPT !.top = @ - 1], "OnTerminate", c.stack[c.top])
         IN  IF ~tt[c.stack[c.top]][x]
             THEN {Throw([d EXCEPT !.top = @ + 1]) : d \in S}
             ELSE Enter(S, x)

\* Jump reading stack[top] where the code reads stack[top--].
JumpNoDecrement(c, x) ==
    IF c.top # -1 /\ ~tt[c.stack[c.top]][x]
    THEN {Throw(c)}
    ELSE Enter(IF c.top # -1
               THEN Fire(c, "OnTerminate", c.stack[c.top])
               ELSE {c}, x)

\* Jump pausing the outgoing state where the code terminates it.
JumpPauses(c, x) ==
    IF c.top # -1 /\ ~tt[c.stack[c.top]][x]
    THEN {Throw(c)}
    ELSE Enter(IF c.top # -1
               THEN Fire([c EXCEPT !.top = @ - 1], "OnPause", c.stack[c.top])
               ELSE {c}, x)

\* Jump replacing the top without terminating it.
JumpNoTerminate(c, x) ==
    IF c.top # -1 /\ ~tt[c.stack[c.top]][x]
    THEN {Throw(c)}
    ELSE Enter({IF c.top # -1 THEN [c EXCEPT !.top = @ - 1] ELSE c}, x)

\* Jump(ctx, to).  In bt[m->stack[m->top--]]->OnTerminate(ctx) the cursor is
\* decremented while the callee is computed, before OnTerminate begins.
Jump(c, x) ==
    IF c.top # -1 /\ ~check(c.stack[c.top], x)
    THEN {Throw(c)}
    ELSE Enter(IF c.top # -1
               THEN Fire([c EXCEPT !.top = @ - 1], "OnTerminate", c.stack[c.top])
               ELSE {c}, x)

\* Push entering the new state before it pauses the old one.
PushEnterFirst(c, x) ==
    IF c.top # -1 /\ ~tt[c.stack[c.top]][x]
    THEN {Throw(c)}
    ELSE LET S == Enter({c}, x)
         IN  IF c.top = -1
             THEN S
             ELSE Ended(S)
                    \cup UNION {Fire(d, "OnPause", c.stack[c.top]) : d \in Running(S)}

\* Push covering the old top without pausing it.
PushNoPause(c, x) ==
    IF c.top # -1 /\ ~tt[c.stack[c.top]][x]
    THEN {Throw(c)}
    ELSE Enter({c}, x)

\* Push covering the top without checking the transition.
PushUnchecked(c, x) ==
    Enter(IF c.top # -1
          THEN Fire(c, "OnPause", c.stack[c.top])
          ELSE {c}, x)

\* Push(ctx, to).  Nothing compares the cursor with N.
Push(c, x) ==
    IF c.top # -1 /\ ~check(c.stack[c.top], x)
    THEN {Throw(c)}
    ELSE Enter(IF c.top # -1
               THEN Fire(c, "OnPause", c.stack[c.top])
               ELSE {c}, x)

\* Pop resuming the state below before it terminates the top.
PopResumeFirst(c) ==
    IF c.top < 1
    THEN {Undefined(c)}
    ELSE LET S == Fire([c EXCEPT !.top = @ - 1], "OnResume", c.stack[c.top - 1])
         IN  Ended(S)
               \cup UNION {Fire(d, "OnTerminate", c.stack[c.top]) : d \in Running(S)}

\* Pop leaving the state below without resuming it.
PopNoResume(c) ==
    IF c.top < 0
    THEN {[c EXCEPT !.result = o] : o \in AssertFailed}
    ELSE Fire([c EXCEPT !.top = @ - 1], "OnTerminate", c.stack[c.top])

\* Pop checking the transition from the top to the state below it.
PopChecked(c) ==
    IF c.top < 0
    THEN {[c EXCEPT !.result = o] : o \in AssertFailed}
    ELSE IF c.top >= 1 /\ ~tt[c.stack[c.top]][c.stack[c.top - 1]]
    THEN {Throw(c)}
    ELSE LET S == Fire([c EXCEPT !.top = @ - 1], "OnTerminate", c.stack[c.top])
         IN  Ended(S)
               \cup UNION {IF d.top \in States
                           THEN Fire(d, "OnResume", d.stack[d.top])
                           ELSE {Undefined(d)} : d \in Running(S)}

\* Pop reading stack[top] where the code reads stack[top--].
PopNoDecrement(c) ==
    IF c.top < 0
    THEN {[c EXCEPT !.result = o] : o \in AssertFailed}
    ELSE LET S == Fire(c, "OnTerminate", c.stack[c.top])
         IN  Ended(S)
               \cup UNION {Fire(d, "OnResume", d.stack[d.top]) : d \in Running(S)}

\* Pop(ctx).  assert(m->top >= 0) is all that guards it: with one entry the
\* cursor moves to -1, OnTerminate runs and stack[-1] is read.
Pop(c) ==
    IF c.top < 0
    THEN {[c EXCEPT !.result = o] : o \in AssertFailed}
    ELSE LET S == Fire([c EXCEPT !.top = @ - 1], "OnTerminate", c.stack[c.top])
         IN  Ended(S)
               \cup UNION {IF d.top \in States
                           THEN Fire(d, "OnResume", d.stack[d.top])
                           ELSE {Undefined(d)} : d \in Running(S)}

\* Update ticking the bottom of the stack where the code ticks the top.
UpdateBottom(c, b) ==
    IF c.top \notin States
    THEN {Undefined(c)}
    ELSE LET S == Fire(c, "BeforeUpdate", c.stack[c.top])
         IN  IF b THEN S
             ELSE Ended(S)
                    \cup UNION {Fire(d, "Update", d.stack[0]) : d \in Running(S)}

\* Update going on to the Update hook whatever BeforeUpdate returned.
UpdateIgnoresReturn(c, b) ==
    IF c.top \notin States
    THEN {Undefined(c)}
    ELSE LET S == Fire(c, "BeforeUpdate", c.stack[c.top])
         IN  Ended(S)
               \cup UNION {IF d.top \in States
                           THEN Fire(d, "Update", d.stack[d.top])
                           ELSE {Undefined(d)} : d \in Running(S)}

\* Update(ctx); b is what BeforeUpdate returns.  Only assert(m != nullptr)
\* guards it, and the cursor is read again after BeforeUpdate.
Update(c, b) ==
    IF c.top \notin States
    THEN {Undefined(c)}
    ELSE LET S == Fire(c, "BeforeUpdate", c.stack[c.top])
         IN  IF b THEN S
             ELSE Ended(S)
                    \cup UNION {IF d.top \in States
                                THEN Fire(d, "Update", d.stack[d.top])
                                ELSE {Undefined(d)} : d \in Running(S)}

\* Top reading stack[top--] where the code reads stack[top].
TopPops(c) ==
    IF c.top < 0
    THEN {[c EXCEPT !.result = o] : o \in AssertFailed}
    ELSE {[c EXCEPT !.ret = c.stack[c.top], !.top = @ - 1]}

\* Top(): the state at the cursor.
Top(c) ==
    IF c.top < 0
    THEN {[c EXCEPT !.result = o] : o \in AssertFailed}
    ELSE {[c EXCEPT !.ret = c.stack[c.top]]}

\* SetHandlingFsm that binds the record and never starts it.
SetHandlingFsmNoJump(c) == {c}

\* SetHandlingFsm jumping to state 0 whether the record has started or not.
SetHandlingFsmAlwaysJump(c) == Jump(c, 0)

\* SetHandlingFsm(fsm, ctx), after m = &fsm.
SetHandlingFsm(c) ==
    IF c.top = -1 THEN Jump(c, 0) ELSE {c}

\* The configuration a call on record r starts from.
Cfg(r, plan) ==
    [stack |-> fsm[r].stack, top |-> fsm[r].top, bb |-> bb,
     calls |-> << >>, plan |-> plan, result |-> "ok", ret |-> -1]

\* An abort or undefined behaviour ends the run.
FaultOf(result) ==
    IF result \in {"ub", "abort"} THEN result ELSE "none"

\* A call on record r ends in configuration out.
Commit(op, to, r, plan, out) ==
    /\ fsm' = [fsm EXCEPT ![r] = [stack |-> out.stack, top |-> out.top]]
    /\ bb' = out.bb
    /\ calls' = out.calls
    /\ last' = [op |-> op, to |-> to, rec |-> r, plan |-> plan,
                result |-> out.result, ret |-> out.ret]
    /\ pre' = fsm[r]
    /\ fault' = FaultOf(out.result)
    /\ seq' = seq + 1
    /\ pushes' = IF op = "Push" /\ out.result = "ok"
                 THEN [pushes EXCEPT ![r] = @ + 1] ELSE pushes
    /\ pops' = IF op = "Pop" /\ out.result = "ok"
               THEN [pops EXCEPT ![r] = @ + 1] ELSE pops

\* assert(m != nullptr) with no record bound, ending as outcome o.
NullCall(op, to, o) ==
    /\ m = NULL
    /\ last' = [op |-> op, to |-> to, rec |-> NULL, plan |-> NoPlan,
                result |-> o, ret |-> -1]
    /\ fault' = o
    /\ calls' = << >>
    /\ seq' = seq + 1
    /\ UNCHANGED << behaviors, bt, ctor, transitions, tt, m, fsm, bb, pre, pushes, pops >>

\* The host makes another call.
Ready == fault = "none" /\ seq < MaxCalls

DoSetHandlingFsm(r, plan) ==
    /\ Ready
    /\ m' = r
    /\ \E out \in SetHandlingFsm(Cfg(r, plan)) :
         Commit("SetHandlingFsm", -1, r, plan, out)
    /\ UNCHANGED << behaviors, bt, ctor, transitions, tt >>

\* ClearHandlingFsm that also resets the record it unbinds.
DoClearHandlingFsmResets ==
    /\ Ready
    /\ m' = NULL
    /\ fsm' = [r \in Records |->
                 IF r = m THEN [fsm[r] EXCEPT !.top = -1] ELSE fsm[r]]
    /\ last' = [op |-> "ClearHandlingFsm", to |-> -1, rec |-> m,
                plan |-> NoPlan, result |-> "ok", ret |-> -1]
    /\ calls' = << >>
    /\ seq' = seq + 1
    /\ UNCHANGED << behaviors, bt, ctor, transitions, tt, bb, pre, pushes,
                    pops, fault >>

DoClearHandlingFsm ==
    /\ Ready
    /\ m' = NULL
    /\ last' = [op |-> "ClearHandlingFsm", to |-> -1, rec |-> m,
                plan |-> NoPlan, result |-> "ok", ret |-> -1]
    /\ calls' = << >>
    /\ seq' = seq + 1
    /\ UNCHANGED << behaviors, bt, ctor, transitions, tt, fsm, bb, pre, pushes, pops, fault >>

DoJump(x, plan) ==
    /\ Ready
    /\ m # NULL
    /\ \E out \in Jump(Cfg(m, plan), x) : Commit("Jump", x, m, plan, out)
    /\ UNCHANGED << behaviors, bt, ctor, transitions, tt, m >>

DoPush(x, plan) ==
    /\ Ready
    /\ m # NULL
    /\ \E out \in Push(Cfg(m, plan), x) : Commit("Push", x, m, plan, out)
    /\ UNCHANGED << behaviors, bt, ctor, transitions, tt, m >>

DoPop(plan) ==
    /\ Ready
    /\ m # NULL
    /\ \E out \in Pop(Cfg(m, plan)) : Commit("Pop", -1, m, plan, out)
    /\ UNCHANGED << behaviors, bt, ctor, transitions, tt, m >>

DoUpdate(b, plan) ==
    /\ Ready
    /\ m # NULL
    /\ \E out \in Update(Cfg(m, plan), b) : Commit("Update", -1, m, plan, out)
    /\ UNCHANGED << behaviors, bt, ctor, transitions, tt, m >>

DoTop ==
    /\ Ready
    /\ m # NULL
    /\ \E out \in Top(Cfg(m, NoPlan)) : Commit("Top", -1, m, NoPlan, out)
    /\ UNCHANGED << behaviors, bt, ctor, transitions, tt, m >>

\* Jump, Push, Pop, Update or Top with no record bound.
DoUnbound(op, x) ==
    /\ Ready
    /\ \E o \in AssertFailed : NullCall(op, x, o)

Init ==
    /\ behaviors = TestBehaviors
    /\ bt = [s \in States |-> s + 1]
    /\ ctor = [pc |-> "done", i |-> Len(TestBehaviors) + 1]
    /\ transitions \in Tables
    /\ tt = setup(transitions)
    /\ m = NULL
    /\ fsm = [r \in Records |->
                [stack |-> [i \in States |-> Indeterminate], top |-> -1]]
    /\ bb = [h \in Hooks |-> [s \in States |-> 0]]
    /\ seq = 0
    /\ last = [op |-> "construct", to |-> -1, rec |-> NULL, plan |-> NoPlan,
               result |-> "ok", ret |-> -1]
    /\ calls = << >>
    /\ pre = [stack |-> [i \in States |-> Indeterminate], top |-> -1]
    /\ pushes = [r \in Records |-> 0]
    /\ pops = [r \in Records |-> 0]
    /\ fault = "none"

\* The host drives the handler; no hook calls back.
Next ==
    \/ \E r \in Records : DoSetHandlingFsm(r, NoPlan)
    \/ DoClearHandlingFsm
    \/ \E x \in States : DoJump(x, NoPlan)
    \/ \E x \in States : DoPush(x, NoPlan)
    \/ DoPop(NoPlan)
    \/ \E b \in BOOLEAN : DoUpdate(b, NoPlan)
    \/ DoTop
    \/ \E op \in {"Jump", "Push"}, x \in States : DoUnbound(op, x)
    \/ \E op \in {"Pop", "Update", "Top"} : DoUnbound(op, -1)

Spec == Init /\ [][Next]_vars

(***************************************************************************)
(* The constructor.  StateMachineHandler(behaviors, transitions) runs      *)
(* setup(): a loop over the behaviour table that fills bt, then a loop     *)
(* over the transition table that fills tt.  bt is an array of raw         *)
(* pointers that nothing initialises; tt is an array of bitsets, which     *)
(* start all zero.                                                         *)
(***************************************************************************)

\* The behaviour tables a handler is constructed from: up to N behaviours,
\* each reporting a state value of the enum, its last member S::N included.
BehaviorTables == UNION {[1 .. n -> 0 .. N] : n \in 0 .. N}

\* One turn of the behaviours loop: bt[C(state)] = b.get().  Nothing looks at
\* what bt[C(state)] holds already, and nothing compares state with N: the
\* store for S::N lands one past bt.
SetupBehavior ==
    /\ ctor.pc = "setup"
    /\ fault = "none"
    /\ ctor.i <= Len(behaviors)
    /\ LET state == behaviors[ctor.i]
       IN  IF state \in States
           THEN bt' = [bt EXCEPT ![state] = ctor.i] /\ fault' = fault
           ELSE bt' = bt /\ fault' = "ub"
    /\ ctor' = [ctor EXCEPT !.i = @ + 1]
    /\ UNCHANGED << behaviors, transitions, tt, m, fsm, bb, seq, last, calls,
                    pre, pushes, pops >>

\* The transitions loop, after the behaviours loop; the constructor returns.
SetupTransitions ==
    /\ ctor.pc = "setup"
    /\ fault = "none"
    /\ ctor.i > Len(behaviors)
    /\ tt' = setup(transitions)
    /\ ctor' = [ctor EXCEPT !.pc = "done"]
    /\ UNCHANGED << behaviors, bt, transitions, m, fsm, bb, seq, last, calls,
                    pre, pushes, pops, fault >>

\* The constructor is entered.
InitSetup ==
    /\ behaviors \in BehaviorTables
    /\ bt = [s \in States |-> Indeterminate]
    /\ ctor = [pc |-> "setup", i |-> 1]
    /\ transitions \in Tables
    /\ tt = [f \in States |-> [t \in States |-> FALSE]]
    /\ m = NULL
    /\ fsm = [r \in Records |->
                [stack |-> [i \in States |-> Indeterminate], top |-> -1]]
    /\ bb = [h \in Hooks |-> [s \in States |-> 0]]
    /\ seq = 0
    /\ last = [op |-> "construct", to |-> -1, rec |-> NULL, plan |-> NoPlan,
               result |-> "ok", ret |-> -1]
    /\ calls = << >>
    /\ pre = [stack |-> [i \in States |-> Indeterminate], top |-> -1]
    /\ pushes = [r \in Records |-> 0]
    /\ pops = [r \in Records |-> 0]
    /\ fault = "none"

NextSetup ==
    \/ SetupBehavior
    \/ SetupTransitions

SpecSetup == InitSetup /\ [][NextSetup]_vars

(***************************************************************************)
(* Hooks that call back.  A behaviour holds its handler (bindHandler) and  *)
(* may call Jump, Push or Pop from inside a hook, as A::OnSignal does from *)
(* BeforeUpdate.  Under SpecHooks the first hook a call dispatches does    *)
(* any one of these, or only counts; the hooks dispatched after it only    *)
(* count.                                                                  *)
(***************************************************************************)

\* How many calls the host makes in a run whose hooks call back.
MaxHookCalls == 2

\* What the hooks of one call do: nothing, or the first of them one thing.
HookPlans == {NoPlan} \cup {<< a >> : a \in HookActions}

\* The host makes another call of such a run.
HookReady == seq < MaxHookCalls

NextHooks ==
    \/ \E r \in Records, plan \in HookPlans :
         HookReady /\ DoSetHandlingFsm(r, plan)
    \/ HookReady /\ DoClearHandlingFsm
    \/ \E x \in States, plan \in HookPlans : HookReady /\ DoJump(x, plan)
    \/ \E x \in States, plan \in HookPlans : HookReady /\ DoPush(x, plan)
    \/ \E plan \in HookPlans : HookReady /\ DoPop(plan)
    \/ \E b \in BOOLEAN, plan \in HookPlans : HookReady /\ DoUpdate(b, plan)

SpecHooks == Init /\ [][NextHooks]_vars

(***************************************************************************)
(* The claims.  `last`, `calls` and `pre` describe the latest call, so a   *)
(* statement about one call is an invariant over the state it leaves.      *)
(***************************************************************************)

\* The latest call ran on a bound record that had been started, and its
\* hooks made no call of their own.
OnStarted == last.rec # NULL /\ pre.top \in States /\ last.plan = NoPlan
\* The hooks the latest call dispatched, in order: << hook, state >>.
Dispatched == [i \in 1 .. Len(calls) |-> << calls[i][1], calls[i][2] >>]
\* The state that was on top when the latest call began.
PreTop == pre.stack[pre.top]
\* The record of the latest call, as the call left it.
Rec == fsm[last.rec]
\* The transition list names t among the targets of f.
Lists(f, t) ==
    t \in UNION {{transitions[i].targets[j] : j \in DOMAIN transitions[i].targets} :
                   i \in {k \in DOMAIN transitions : transitions[k].from = f}}

\* C1 Adjacency fidelity: on a started record (for Push, with room left),
\* Jump(to) and Push(to) return normally exactly when the transition list
\* names `to` among the targets of the top state, and throw the
\* invalid-transition error otherwise.
C1_AdjacencyFidelity ==
    (/\ last.op \in {"Jump", "Push"}
     /\ OnStarted
     /\ (last.op = "Push" => pre.top + 1 < N))
    => /\ last.result \in {"ok", "InvalidTransition"}
       /\ (last.result = "ok") <=> Lists(PreTop, last.to)

\* A self-transition was refused although the state has other targets.
C1_Witness ==
    /\ last.op = "Jump"
    /\ OnStarted
    /\ last.to = PreTop
    /\ last.result = "InvalidTransition"
    /\ \E t \in States : Lists(PreTop, t)

\* C2 Atomic failure: a Jump or Push refused for its transition leaves the
\* record as it was and has dispatched no hook.
C2_AtomicFailure ==
    (last.result = "InvalidTransition" /\ last.plan = NoPlan)
    => /\ last.op \in {"Jump", "Push"}
       /\ Rec = pre
       /\ calls = << >>

\* A Jump was refused on a record holding two entries.
C2_Witness ==
    /\ last.op = "Jump"
    /\ last.result = "InvalidTransition"
    /\ pre.top = 1
    /\ Rec = pre

\* C3 Depth deltas: a call that returns normally on a started record leaves
\* the cursor where it was (Jump), one higher (Push) or one lower (Pop),
\* and a started record's depth is its Pushes minus its Pops plus one.
C3_DepthDeltas ==
    /\ (last.result = "ok" /\ OnStarted)
       => /\ (last.op = "Jump" => Rec.top = pre.top)
          /\ (last.op = "Push" => Rec.top = pre.top + 1)
          /\ (last.op = "Pop" => Rec.top = pre.top - 1)
    /\ fault # "ub"
       => \A r \in Records :
            fsm[r].top # -1 => fsm[r].top + 1 = (pushes[r] - pops[r]) + 1

\* A Pop returned on a record that had been pushed twice, and between the
\* two a Jump had replaced its top.
C3_Witness ==
    /\ last.op = "Pop"
    /\ last.result = "ok"
    /\ pushes[last.rec] = 2
    /\ pops[last.rec] = 1
    /\ Rec.top = 1
    /\ Rec.stack[1] # 0
    /\ Rec.stack[0] # 0

\* C4 Capacity bound: a Push on a record holding N entries fails and leaves
\* the record unchanged, so no cursor exceeds N - 1 and no store lands
\* outside the array.
C4_CapacityBound ==
    /\ (last.op = "Push" /\ last.rec # NULL /\ pre.top = N - 1)
       => /\ last.result \in {"StackOverflow", "InvalidTransition"}
          /\ Rec = pre
    /\ \A r \in Records : fsm[r].top <= N - 1

\* C5 Underflow guard: a Pop on a record holding fewer than two entries is
\* rejected before any hook and before the cursor moves, so the bound
\* record always holds at least one entry.
C5_UnderflowGuard ==
    /\ (last.op = "Pop" /\ last.rec # NULL /\ pre.top < 1)
       => /\ last.result \in {"StackUnderflow", "abort"}
          /\ calls = << >>
          /\ Rec = pre
    /\ m # NULL => fsm[m].top >= 0

\* C6 Bootstrap on bind: SetHandlingFsm on a record that never started
\* leaves it holding the one entry 0, has dispatched OnEnter of 0 and
\* nothing else, and never throws, whatever the transition table.
C6_BootstrapOnBind ==
    (last.op = "SetHandlingFsm" /\ pre.top = -1 /\ last.plan = NoPlan)
    => /\ last.result = "ok"
       /\ m = last.rec
       /\ Rec.top = 0
       /\ Rec.stack[0] = 0
       /\ Dispatched = << << "OnEnter", 0 >> >>

\* A record was started under the table with no entry.
C6_Witness ==
    /\ transitions = EmptyTable
    /\ last.op = "SetHandlingFsm"
    /\ pre.top = -1
    /\ Rec.top = 0

\* C7 Push hook dispatch: a Push that returns normally has dispatched
\* OnPause of the old top and then OnEnter of the target, nothing else, and
\* the old top lies directly below the target.
C7_PushDispatch ==
    (last.op = "Push" /\ last.result = "ok" /\ OnStarted)
    => /\ Dispatched = << << "OnPause", PreTop >>, << "OnEnter", last.to >> >>
       /\ Rec.top = pre.top + 1
       /\ Rec.stack[Rec.top] = last.to
       /\ Rec.stack[Rec.top - 1] = PreTop

\* A Push returned on a record that held two entries.
C7_Witness ==
    /\ last.op = "Push"
    /\ last.result = "ok"
    /\ pre.top = 1
    /\ Rec.top = 2

\* C8 Pop hook dispatch: a Pop on a record holding at least two entries
\* dispatches OnTerminate of the top and then OnResume of the state below,
\* nothing else, and leaves that state on top.
C8_PopDispatch ==
    (last.op = "Pop" /\ OnStarted /\ pre.top >= 1)
    => /\ last.result = "ok"
       /\ Dispatched = << << "OnTerminate", PreTop >>,
                     << "OnResume", pre.stack[pre.top - 1] >> >>
       /\ Rec.top = pre.top - 1
       /\ Rec.stack[Rec.top] = pre.stack[pre.top - 1]

\* A Pop returned to a state the table gives no transition to from the
\* popped one.
C8_Witness ==
    /\ last.op = "Pop"
    /\ last.result = "ok"
    /\ pre.top >= 1
    /\ ~Lists(PreTop, Rec.stack[Rec.top])

\* C9 Jump hook dispatch: a Jump that returns normally on a started record
\* has dispatched OnTerminate of the old top and then OnEnter of the
\* target, nothing else, and the target holds the old top's slot.
C9_JumpDispatch ==
    (last.op = "Jump" /\ last.result = "ok" /\ OnStarted)
    => /\ Dispatched = << << "OnTerminate", PreTop >>, << "OnEnter", last.to >> >>
       /\ Rec.top = pre.top
       /\ Rec.stack[Rec.top] = last.to
       /\ \A i \in 0 .. (pre.top - 1) : Rec.stack[i] = pre.stack[i]

\* A Jump returned on a record holding two entries.
C9_Witness ==
    /\ last.op = "Jump"
    /\ last.result = "ok"
    /\ pre.top = 1
    /\ Rec.stack[1] # pre.stack[1]

\* C10 Update targets only the top: an Update call dispatches BeforeUpdate
\* and Update to the state at the cursor only, and a state's Update counter
\* moves only in an Update call made while it is on top, by one.
C10_UpdateTopOnly ==
    [][ /\ (last'.op = "Update" /\ last'.plan = NoPlan /\ m # NULL)
           => \A i \in 1 .. Len(calls') :
                /\ calls'[i][1] \in {"BeforeUpdate", "Update"}
                /\ calls'[i][2] = fsm[m].stack[fsm[m].top]
        /\ \A s \in States :
             (bb'["Update"][s] # bb["Update"][s] /\ last'.plan = NoPlan)
             => /\ last'.op = "Update"
                /\ m # NULL
                /\ s = fsm[m].stack[fsm[m].top]
                /\ bb'["Update"][s] = bb["Update"][s] + 1
                /\ calls' = << << "BeforeUpdate", s, fsm[m].top >>,
                               << "Update", s, fsm[m].top >> >>
      ]_vars

\* The top was ticked twice over a paused state that was ticked once.
C10_Witness ==
    /\ last.op = "Update"
    /\ last.rec # NULL
    /\ Rec.top = 1
    /\ Rec.stack[0] # Rec.stack[1]
    /\ bb["Update"][Rec.stack[0]] = 1
    /\ bb["Update"][Rec.stack[1]] = 2

\* How many of the hooks the latest call dispatched were `hook`.
Count(hook) == Cardinality({i \in DOMAIN calls : calls[i][1] = hook})

\* C11 BeforeUpdate suppression: an Update call dispatches BeforeUpdate once,
\* first, to the state on top; when BeforeUpdate returns true no Update hook
\* runs in the call and no Update counter moves, also when BeforeUpdate made
\* a Jump, and then the jump target is on top after the call.
C11_BeforeUpdateSuppression ==
    [][ (last'.op = "Update" /\ m # NULL)
        => LET plan == last'.plan
           IN  /\ calls'[1] = << "BeforeUpdate", fsm[m].stack[fsm[m].top],
                                 fsm[m].top >>
               /\ \A i \in 2 .. Len(calls') : calls'[i][1] # "BeforeUpdate"
               /\ DoUpdate(TRUE, plan)
                  => /\ \A i \in 1 .. Len(calls') : calls'[i][1] # "Update"
                     /\ bb'["Update"] = bb["Update"]
                     /\ (/\ plan # NoPlan
                         /\ plan[1][1] = "Jump"
                         /\ last'.result = "ok")
                        => /\ fsm'[m].top = fsm[m].top
                           /\ fsm'[m].stack[fsm'[m].top] = plan[1][2]
      ]_vars

\* A's BeforeUpdate jumped to B and returned true: B is on top, and neither
\* A nor B has been ticked.
C11_Witness ==
    /\ last.op = "Update"
    /\ last.plan = << << "Jump", 1 >> >>
    /\ last.result = "ok"
    /\ Dispatched = << << "BeforeUpdate", 0 >>, << "OnTerminate", 0 >>,
                      << "OnEnter", 1 >> >>
    /\ Rec.top = 0
    /\ Rec.stack[0] = 1
    /\ \A s \in States : bb["Update"][s] = 0

\* The records that have state s on top.
Tops(s) == {r \in Records : fsm[r].top \in States /\ fsm[r].stack[fsm[r].top] = s}

\* C12 Hook-count conservation, as claimed: whenever state s is on top of no
\* record, OnEnter(s) has been dispatched as often as OnTerminate(s) and
\* OnPause(s) together.
C12_HookCountConservation ==
    \A s \in States :
        Tops(s) = {}
        => bb["OnEnter"][s] = bb["OnTerminate"][s] + bb["OnPause"][s]

\* C12 as amended: whenever state s is on top of no record, OnEnter(s) and
\* OnResume(s) together have been dispatched as often as OnTerminate(s) and
\* OnPause(s) together.
C12_HookCountBalance ==
    \A s \in States :
        Tops(s) = {}
        => bb["OnEnter"][s] + bb["OnResume"][s]
             = bb["OnTerminate"][s] + bb["OnPause"][s]

\* A state entered once was paused, resumed and paused again, and lies
\* below the top.
C12_Witness ==
    /\ last.op = "Push"
    /\ last.result = "ok"
    /\ Tops(PreTop) = {}
    /\ bb["OnEnter"][PreTop] = 1
    /\ bb["OnResume"][PreTop] = 1
    /\ bb["OnPause"][PreTop] = 2
    /\ bb["OnTerminate"][PreTop] = 0

\* The places where state s lies strictly below the top of a record.
Below(s) ==
    {<< r, i >> \in Records \X States : i < fsm[r].top /\ fsm[r].stack[i] = s}

\* C13 Pause/resume matching: OnPause is dispatched by Push only, to the
\* state it covers; OnResume is dispatched by Pop only, once, to the state
\* directly below the one it removes; and between calls OnPause(s) exceeds
\* OnResume(s) by the number of places where s lies strictly below a top.
C13_PauseResumeMatching ==
    /\ (last.plan = NoPlan /\ Count("OnPause") > 0)
       => /\ last.op = "Push"
          /\ Count("OnPause") = 1
          /\ calls[1] = << "OnPause", PreTop, pre.top >>
    /\ (last.plan = NoPlan /\ Count("OnResume") > 0)
       => /\ last.op = "Pop"
          /\ pre.top >= 1
          /\ Count("OnResume") = 1
          /\ calls[Len(calls)]
               = << "OnResume", pre.stack[pre.top - 1], pre.top - 1 >>
          /\ Rec.top = pre.top - 1
    /\ fault # "ub"
       => \A s \in States :
            bb["OnPause"][s] - bb["OnResume"][s] = Cardinality(Below(s))

\* A state was covered by a Push, the overlay was replaced by a Jump, and
\* the Pop of the replacement resumed the state.
C13_Witness ==
    /\ last.op = "Pop"
    /\ last.result = "ok"
    /\ pushes[last.rec] = 1
    /\ bb["OnPause"][Rec.stack[Rec.top]] = 1
    /\ bb["OnResume"][Rec.stack[Rec.top]] = 1
    /\ \E x \in States :
         /\ x # PreTop
         /\ bb["OnTerminate"][x] = 1
         /\ bb["OnTerminate"][PreTop] = 1

\* C14, as claimed: the graph is checked against the top in Jump, Push and
\* Pop, so a Pop returns from top t to the state u below it only when the
\* transition list names u among the targets of t.
C14_GraphCheckedInPop ==
    OnStarted
    => /\ (last.op \in {"Jump", "Push"} /\ last.result = "ok")
          => Lists(PreTop, last.to)
       /\ (last.op = "Pop" /\ last.result = "ok" /\ pre.top >= 1)
          => Lists(PreTop, pre.stack[pre.top - 1])

\* C14 as amended: the graph is checked against the top in Jump and Push;
\* Pop checks no transition, and on a record holding at least two entries
\* it returns to the state below whatever the graph says.
C14_GraphCheckedInJumpAndPush ==
    OnStarted
    => /\ (last.op \in {"Jump", "Push"} /\ last.result = "ok")
          => Lists(PreTop, last.to)
       /\ (last.op = "Pop" /\ pre.top >= 1)
          => /\ last.result = "ok"
             /\ Rec = [pre EXCEPT !.top = @ - 1]

\* Under the table of tests/states.h, which has no entry for B -> A, a Pop
\* returned from B to A.
C14_Witness ==
    /\ transitions = TestTable
    /\ last.op = "Pop"
    /\ last.result = "ok"
    /\ PreTop = 1
    /\ Rec.stack[Rec.top] = 0
    /\ ~tt[1][0]

\* C15 Unbind and rebind are silent: ClearHandlingFsm dispatches no hook and
\* leaves every record and counter as it was; SetHandlingFsm on a record
\* that has started binds it, dispatches no hook and leaves every record
\* and counter as it was, so the same state is on top as before the unbind.
C15_SilentUnbindRebind ==
    [][ /\ last'.op = "ClearHandlingFsm"
           => /\ m' = NULL
              /\ calls' = << >>
              /\ fsm' = fsm
              /\ bb' = bb
              /\ fault' = fault
        /\ (last'.op = "SetHandlingFsm" /\ fsm[last'.rec].top >= 0)
           => /\ m' = last'.rec
              /\ last'.result = "ok"
              /\ calls' = << >>
              /\ fsm' = fsm
              /\ bb' = bb
      ]_vars

\* A record holding two entries was bound again, and nothing moved.
C15_Witness ==
    /\ last.op = "SetHandlingFsm"
    /\ last.result = "ok"
    /\ m = last.rec
    /\ pre.top = 1
    /\ Rec = pre
    /\ calls = << >>

\* C16 No operation without a binding: Jump, Push, Pop, Update or Top called
\* with no record bound is rejected as a precondition violation and
\* dispatches no hook; it goes on to no access through the null m.
C16_NoOperationUnbound ==
    (last.rec = NULL /\ last.op \in {"Jump", "Push", "Pop", "Update", "Top"})
    => /\ last.result \in {"PreconditionViolation", "abort"}
       /\ calls = << >>
       /\ fault # "ub"

\* C17 Exclusive binding: SetHandlingFsm called while another record is
\* bound is rejected: the bound record stays bound, the second record is
\* not started and no hook is dispatched.
C17_ExclusiveBinding ==
    [][ (last'.op = "SetHandlingFsm" /\ m # NULL /\ m # last'.rec)
        => /\ last'.result # "ok"
           /\ m' = m
           /\ fsm' = fsm
           /\ calls' = << >>
      ]_vars

\* The behaviour table names a state value twice, or one outside 0 .. N - 1.
BadRegistry ==
    \E i \in DOMAIN behaviors :
        \/ behaviors[i] \notin States
        \/ \E j \in DOMAIN behaviors : j # i /\ behaviors[j] = behaviors[i]

\* C18 Registry validation at setup: from a behaviour table that names a
\* state twice or names a value out of range the constructor produces no
\* handler and makes no store outside bt, and a behaviour recorded for a
\* state is never replaced by a later one of the table.
C18_RegistryValidation ==
    /\ BadRegistry => (ctor.pc # "done" /\ fault # "ub")
    /\ \A s \in States :
         bt[s] # Indeterminate
         => \A j \in 1 .. (bt[s] - 1) : behaviors[j] # s

\* C19 Graph construction: once the constructor has returned, tt[f][t] is
\* set exactly for the pairs (f, t) for which some entry of the transition
\* list has from = f and t among its targets.
C19_GraphConstruction ==
    ctor.pc = "done"
    => \A f, t \in States : tt[f][t] <=> Lists(f, t)

\* A handler was built from the table with two entries for state 0: both
\* entries' targets are set, the reverse of a declared pair only where it is
\* declared too, and the state with no entry has no target.
C19_Witness ==
    /\ ctor.pc = "done"
    /\ transitions = LoopTable
    /\ tt[0][0] /\ tt[0][1] /\ tt[1][0] /\ ~tt[0][2]
    /\ \A t \in States : ~tt[2][t]

\* C20 The unchecked entry of a state is only possible at bind time: no
\* Jump or Push, made by the host or by a hook, begins on a record whose
\* cursor is -1, where Jump and Push skip the transition check; only the
\* Jump to state 0 that SetHandlingFsm makes does.
C20_UncheckedOnlyAtBind ==
    /\ (last.op \in {"Jump", "Push"} /\ last.rec # NULL) => pre.top # -1
    /\ \A i \in DOMAIN calls :
         (i <= Len(last.plan) /\ last.plan[i][1] \in {"Jump", "Push"})
         => calls[i][3] # -1

\* C21 One behaviour is ticked per Update call: every BeforeUpdate and
\* Update hook an Update call dispatches goes to the state that was on top
\* when the call began, also when BeforeUpdate made a Jump or a Push and
\* returned false.
C21_OneBehaviorTicked ==
    (last.op = "Update" /\ last.rec # NULL)
    => \A i \in DOMAIN calls :
         calls[i][1] \in {"BeforeUpdate", "Update"} => calls[i][2] = PreTop

\* C22 Cursor during OnTerminate: when the OnTerminate that a Jump or a Pop
\* of the host dispatches begins, the cursor is where it was when the call
\* began, on the outgoing state; and a Jump or Push that this OnTerminate
\* makes and that returns was allowed by the graph from the outgoing state.
C22_CursorDuringOnTerminate ==
    (/\ last.op \in {"Jump", "Pop"}
     /\ last.rec # NULL
     /\ (last.op = "Pop" => pre.top >= 1)
     /\ calls # << >>
     /\ calls[1][1] = "OnTerminate")
    => /\ calls[1][3] = pre.top
       /\ (/\ last.plan # NoPlan
           /\ last.plan[1][1] \in {"Jump", "Push"}
           /\ last.result = "ok")
          => Lists(PreTop, last.plan[1][2])

\* The places where state s lies in a record, at or below its top.
Occurs(s) ==
    {<< r, i >> \in Records \X States : i <= fsm[r].top /\ fsm[r].stack[i] = s}

\* C23 Net hook balance: between calls, for every state s, OnEnter(s)
\* exceeds OnTerminate(s) by the number of places where s lies in a stack,
\* and OnEnter(s) + OnResume(s) exceeds OnTerminate(s) + OnPause(s) by one
\* for each record that has s on top (the records share the blackboard).
C23_NetHookBalance ==
    fault # "ub"
    => \A s \in States :
         /\ bb["OnEnter"][s] - bb["OnTerminate"][s] = Cardinality(Occurs(s))
         /\ (bb["OnEnter"][s] + bb["OnResume"][s])
               - (bb["OnTerminate"][s] + bb["OnPause"][s])
             = Cardinality(Tops(s))

\* A record holds the same state twice, on top and paused below, and some
\* state has been terminated.
C23_Witness ==
    /\ last.rec # NULL
    /\ last.result = "ok"
    /\ Rec.top = 2
    /\ Rec.stack[2] = Rec.stack[0]
    /\ Rec.stack[1] # Rec.stack[0]
    /\ bb["OnEnter"][Rec.stack[0]] - bb["OnTerminate"][Rec.stack[0]] = 2
    /\ \E s \in States : bb["OnTerminate"][s] > 0

RECURSIVE PathWithin(_, _, _)
\* The graph tt has a directed path from f to t of at least one and at most
\* n transitions.
PathWithin(f, t, n) ==
    /\ n >= 1
    /\ \/ tt[f][t]
       \/ \E u \in States : tt[f][u] /\ PathWithin(u, t, n - 1)

\* The graph has a directed path of at least one transition from f to t.
Reaches(f, t) == PathWithin(f, t, N)

\* C24 Graph reachability of the stack: in every record driven by
\* SetHandlingFsm, Jump, Push and Pop whose hooks make no call, each entry
\* at or below the top is state 0 or is reachable from state 0 in the
\* graph, and each entry above the bottom is reachable from the entry
\* directly below it by a path of at least one transition.
C24_StackReachable ==
    \A r \in Records :
        fsm[r].top \in States
        => /\ \A i \in 0 .. fsm[r].top :
                fsm[r].stack[i] = 0 \/ Reaches(0, fsm[r].stack[i])
           /\ \A i \in 0 .. (fsm[r].top - 1) :
                Reaches(fsm[r].stack[i], fsm[r].stack[i + 1])

\* Under the robot's table a state lies above one it is no target of: it
\* was reached from the state below by a Push and then a Jump.
C24_Witness ==
    /\ transitions = RobotTable
    /\ last.op = "Jump"
    /\ last.result = "ok"
    /\ Rec.top >= 1
    /\ ~tt[Rec.stack[Rec.top - 1]][Rec.stack[Rec.top]]
    /\ Reaches(Rec.stack[Rec.top - 1], Rec.stack[Rec.top])

\* C25 Stack frame: a call that returns normally on a started record, with
\* hooks that make no call, changes at most this: Jump the entry at the
\* cursor; Push the cursor, by one, and the entry it moves to; Pop the
\* cursor, by one; Update and Top nothing.
C25_StackFrame ==
    (last.result = "ok" /\ OnStarted)
    => /\ last.op = "Jump"
          => /\ Rec.top = pre.top
             /\ \A i \in States \ {pre.top} : Rec.stack[i] = pre.stack[i]
       /\ last.op = "Push"
          => /\ Rec.top = pre.top + 1
             /\ \A i \in States \ {pre.top + 1} : Rec.stack[i] = pre.stack[i]
       /\ last.op = "Pop"
          => /\ Rec.top = pre.top - 1
             /\ Rec.stack = pre.stack
       /\ last.op \in {"Update", "Top"} => Rec = pre

\* A Jump replaced the top of a record holding two entries and left the
\* entry below it, and the entry a Pop had left above it, as they were.
C25_Witness ==
    /\ last.op = "Jump"
    /\ last.result = "ok"
    /\ pre.top = 1
    /\ pre.stack[2] # Indeterminate
    /\ Rec.stack[1] # pre.stack[1]
    /\ Rec.stack[0] = pre.stack[0]
    /\ Rec.stack[2] = pre.stack[2]

\* What Top() does on a record with these entries and this cursor.
TopOf(stack, cursor) ==
    Top([stack |-> stack, top |-> cursor, result |-> "ok", ret |-> -1])

\* C26 Push/Pop round trip: a Pop made right after a Push that returned
\* normally on a started record returns normally and leaves the cursor and
\* every entry up to it as they were before the Push, with the same state on
\* top, whether or not the graph allows the way back.
C26_PushPopRoundTrip ==
    [][ (/\ last.op = "Push"
         /\ last.result = "ok"
         /\ last.plan = NoPlan
         /\ pre.top \in States
         /\ last'.op = "Pop"
         /\ last'.plan = NoPlan
         /\ last'.rec = last.rec)
        => /\ last'.result = "ok"
           /\ fsm'[last.rec].top = pre.top
           /\ \A i \in 0 .. pre.top : fsm'[last.rec].stack[i] = pre.stack[i]
           /\ \A o \in TopOf(fsm'[last.rec].stack, fsm'[last.rec].top) :
                o.result = "ok" /\ o.ret = pre.stack[pre.top]
      ]_vars

\* A record was started, pushed and popped, in three calls, and the graph
\* has no transition from the popped state back to the one below.
C26_Witness ==
    /\ seq = 3
    /\ last.op = "Pop"
    /\ last.result = "ok"
    /\ pushes[last.rec] = 1
    /\ pops[last.rec] = 1
    /\ Rec.top = 0
    /\ ~tt[PreTop][Rec.stack[0]]

\* Record r taken alone: with a blackboard nothing has counted in.
Alone(r) ==
    [Cfg(r, NoPlan) EXCEPT !.bb = [h \in Hooks |-> [s \in States |-> 0]]]

\* The records that Jump, Push or Pop, called on record r alone, can leave
\* when it returns normally.
Leaves(op, x, r) ==
    LET S == CASE op = "Jump" -> Jump(Alone(r), x)
               [] op = "Push" -> Push(Alone(r), x)
               [] op = "Pop" -> Pop(Alone(r))
    IN  {[stack |-> o.stack, top |-> o.top] : o \in Running(S)}

\* C27 Record isolation: a step changes no record but the one then bound,
\* and only by SetHandlingFsm, Jump, Push or Pop; and what a Jump, Push or
\* Pop that returns normally leaves in the bound record is determined by
\* that record and the call alone, whatever was done to other records.
C27_RecordIsolation ==
    [][ /\ \A r \in Records :
             fsm'[r] # fsm[r]
             => /\ r = m'
                /\ r = last'.rec
                /\ last'.op \in {"SetHandlingFsm", "Jump", "Push", "Pop"}
        /\ (/\ last'.op \in {"Jump", "Push", "Pop"}
            /\ last'.rec # NULL
            /\ last'.plan = NoPlan
            /\ last'.result = "ok")
           => /\ last'.rec = m
              /\ Leaves(last'.op, last'.to, m) = {fsm'[m]}
      ]_vars

\* The second record was bound and driven after the first had been pushed,
\* and the first record is as the Push left it.
C27_Witness ==
    /\ last.rec = 2
    /\ last.op = "Jump"
    /\ last.result = "ok"
    /\ fsm[2].top = 0
    /\ fsm[2].stack[0] # 0
    /\ fsm[1].top = 1
    /\ pushes[1] = 1
    /\ pops[1] = 0

\* C28 Top() seen from inside a hook: when an OnEnter, OnPause or OnResume
\* hook of a call of the host begins, Top() on the record as it then is
\* returns the state whose hook it is: the entered state for OnEnter, the
\* covered state for OnPause, the uncovered state for OnResume.
C28_TopInsideHook ==
    (last.rec # NULL /\ last.plan = NoPlan)
    => \A i \in DOMAIN calls :
         /\ calls[i][1] = "OnEnter"
            => /\ last.op \in {"SetHandlingFsm", "Jump", "Push"}
               /\ \A o \in TopOf(Rec.stack, calls[i][3]) :
                    o.result = "ok" /\ o.ret = calls[i][2]
         /\ calls[i][1] = "OnPause"
            => /\ last.op = "Push"
               /\ \A o \in TopOf(pre.stack, calls[i][3]) :
                    o.result = "ok" /\ o.ret = calls[i][2]
         /\ calls[i][1] = "OnResume"
            => /\ last.op = "Pop"
               /\ \A o \in TopOf(pre.stack, calls[i][3]) :
                    o.result = "ok" /\ o.ret = calls[i][2]

\* A Push on a record holding two entries paused the state at cursor 1 and
\* entered another at cursor 2.
C28_Witness ==
    /\ last.op = "Push"
    /\ last.result = "ok"
    /\ last.to # PreTop
    /\ calls = << << "OnPause", PreTop, 1 >>, << "OnEnter", last.to, 2 >> >>

====
